---- MODULE Spec2Model ----
(***************************************************************************)
(* The resilient-call layer of data-fetcher/network_resilience.py:         *)
(* CircuitBreaker, RateLimiter, the tenacity retry wrapper of              *)
(* NetworkResilientClient._make_request, and the decorator stack of        *)
(* MLBStatsAPI._get.                                                       *)
(*                                                                         *)
(* Time is the integer reading of time.time(); a coroutine runs atomically *)
(* between two suspension points (asyncio, one thread), so every action is *)
(* the code between two awaits that really suspend.                        *)
(***************************************************************************)
EXTENDS Integers, Sequences, FiniteSets, TLC

VARIABLES
    now,          \* time.time()
    cb,           \* a CircuitBreaker shared by the callers
    calls,        \* per caller: where its CircuitBreaker.call stands
    invocations,  \* history: how many times `await func(...)` was started
    streak,       \* history: tracked failures since the last success or reset
    tally,        \* history: how many calls arrived, and how many ended each way
    scenario,     \* history: progress of the run along the scenarios of section 8
    client_cb,    \* NetworkResilientClient.circuit_breaker
    mlb_cb,       \* MLB_API_CIRCUIT_BREAKER
    limiter,      \* NetworkResilientClient.rate_limiter
    client_stats, \* NetworkResilientClient.stats
    reqs,         \* per caller: where its request through the client stands
    started,      \* history: how many logical requests were started
    database_cb,  \* DATABASE_CIRCUIT_BREAKER
    ops,          \* per caller: where its call through a registered breaker stands
    held,         \* what the last get_stats() returned to its caller
    last,         \* history: the last operation on the registered breakers
    lim_pc,       \* per caller of the RateLimiter: "idle", "polling" (asleep in
                  \* wait_for_token) or "returned" (from wait_for_token)
    grants,       \* history: the times at which acquire() returned True
    twin          \* history: the limiter had one refused acquire() not been made

breakerVars == <<cb, calls, invocations, streak, tally, scenario>>
clientVars == <<client_cb, mlb_cb, limiter, client_stats, reqs, started>>
opsVars == <<database_cb, ops, held, last>>
limVars == <<lim_pc, grants, twin>>
vars == <<now, breakerVars, clientVars, opsVars, limVars>>

\* ------------------------------------------------------------------ bounds
NumCallers == 2
MaxTime == 3
MaxCalls == 4
\* the scenario of section 8 runs to t = 8 and takes six calls
ScenarioMaxTime == 8
ScenarioMaxCalls == 6
\* the limiter alone: its longest window is 7 seconds
LimiterMaxTime == 8
\* a caller that calls acquire() back to back, for ten of the longest window
HammerMaxTime == 70
\* the registered breakers: recovery_timeout of database is 60 seconds
OpsMaxTime == 60
OpsMaxCalls == 4
\* the registered breakers with a holder of get_stats()
StatsMaxTime == 60
StatsMaxCalls == 2
\* the client: two backoff delays of a request take 8 seconds
ClientMaxTime == 8
\* _get: two backoff delays of _get take 4 seconds
ApiMaxTime == 4
MaxRequests == 2
\* callers that are cancelled while they wait: a breaker with
\* failure_threshold 1 and recovery_timeout 1 has its probe in two calls
CancelMaxTime == 2
CancelMaxCalls == 2
\* requests against breakers that failing_function has driven: five of its
\* failures open MLB_API_CIRCUIT_BREAKER
RejectsMaxTime == 4
MaxFailing == 5
\* RateLimiter(max_requests, time_window) of the client, scaled down
LimiterRequests == 1
LimiterWindow == 2

Callers == 1..NumCallers

\* ------------------------------------------------------ CircuitState (enum)
CLOSED == "closed"
OPEN == "open"
HALF_OPEN == "half_open"

None == -1

\* --------------------------------------------------------- exception types
\* The exception classes that travel through the layer.  Every one of them
\* derives from Exception; none derives from another of them.  The exception
\* of a cancelled task, asyncio.CancelledError, derives from BaseException.
RequestError == "httpx.RequestError"
HTTPStatusError == "httpx.HTTPStatusError"
RetryError == "tenacity.RetryError"
CircuitBreakerError == "CircuitBreakerError"
ValueError == "ValueError"
BaseOfAll == "Exception"
CancelledError == "asyncio.CancelledError"

\* the tuple (httpx.RequestError, httpx.HTTPStatusError) of the client and of
\* MLB_API_CIRCUIT_BREAKER, and the tuple (Exception,) of DATABASE_CIRCUIT_BREAKER
HttpxErrors == {RequestError, HTTPStatusError}
AnyException == {BaseOfAll}

\* isinstance(e, classes), as `except classes` decides it
IsInstance(e, classes) ==
    e \in classes \/ (BaseOfAll \in classes /\ e # CancelledError)

\* what a wrapped operation can raise
OperationErrors == {RequestError, HTTPStatusError, ValueError}

\* ------------------------------------------------- CircuitBreakerConfig
CircuitBreakerConfig(threshold, timeout, expected, name) ==
    [failure_threshold |-> threshold, recovery_timeout |-> timeout,
     expected_exception |-> expected, name |-> name]

\* the configurations the generic breaker is checked with
Configs ==
    { CircuitBreakerConfig(1, 1, HttpxErrors, "default"),
      CircuitBreakerConfig(2, 2, HttpxErrors, "default"),
      CircuitBreakerConfig(3, 1, HttpxErrors, "default"),
      CircuitBreakerConfig(2, 1, AnyException, "default") }

\* --------------------------------------------------- CircuitBreakerStats
CircuitBreakerStats ==
    [total_requests |-> 0, successful_requests |-> 0, failed_requests |-> 0,
     circuit_opens |-> 0, last_failure_time |-> None, last_success_time |-> None,
     current_failure_count |-> 0]

\* ---------------------------------------------------------- CircuitBreaker
\* CircuitBreaker.__init__
NewCircuitBreaker(config) ==
    [config |-> config, state |-> CLOSED, stats |-> CircuitBreakerStats,
     _last_failure_time |-> None, _failure_count |-> 0]

\* CircuitBreaker._should_attempt_reset at time t
should_attempt_reset_late(b, t) ==
    IF b._last_failure_time = None THEN TRUE
    ELSE t - b._last_failure_time > b.config.recovery_timeout

should_attempt_reset(b, t) ==
    IF b._last_failure_time = None THEN TRUE
    ELSE t - b._last_failure_time >= b.config.recovery_timeout

\* _on_success that closes the breaker whatever its state
on_success_closes(b, t) ==
    [b EXCEPT !.stats.successful_requests = @ + 1,
              !.stats.last_success_time = t,
              !._failure_count = 0,
              !.stats.current_failure_count = 0,
              !.state = CLOSED]

\* _on_success whose addition to successful_requests is lost
on_success_lost(b, t) ==
    LET b1 == [b EXCEPT !.stats.last_success_time = t,
                        !._failure_count = 0,
                        !.stats.current_failure_count = 0]
    IN  IF b1.state = HALF_OPEN THEN [b1 EXCEPT !.state = CLOSED] ELSE b1

\* CircuitBreaker._on_success at time t
on_success(b, t) ==
    LET b1 == [b EXCEPT !.stats.successful_requests = @ + 1,
                        !.stats.last_success_time = t,
                        !._failure_count = 0,
                        !.stats.current_failure_count = 0]
    IN  IF b1.state = HALF_OPEN THEN [b1 EXCEPT !.state = CLOSED] ELSE b1

\* CircuitBreaker._on_failure at time t
on_failure_late(b, t) ==
    LET b1 == [b EXCEPT !.stats.failed_requests = @ + 1,
                        !.stats.last_failure_time = t,
                        !._last_failure_time = t,
                        !._failure_count = @ + 1,
                        !.stats.current_failure_count = b._failure_count + 1]
    IN  IF b1._failure_count > b1.config.failure_threshold
        THEN [b1 EXCEPT !.state = OPEN, !.stats.circuit_opens = @ + 1]
        ELSE b1

on_failure(b, t) ==
    LET b1 == [b EXCEPT !.stats.failed_requests = @ + 1,
                        !.stats.last_failure_time = t,
                        !._last_failure_time = t,
                        !._failure_count = @ + 1,
                        !.stats.current_failure_count = b._failure_count + 1]
    IN  IF b1._failure_count >= b1.config.failure_threshold
        THEN [b1 EXCEPT !.state = OPEN, !.stats.circuit_opens = @ + 1]
        ELSE b1

\* call_enter that does not count the request
call_enter_uncounted(b, t) ==
    IF b.state = OPEN
    THEN IF should_attempt_reset(b, t)
         THEN [breaker |-> [b EXCEPT !.state = HALF_OPEN], rejected |-> FALSE]
         ELSE [breaker |-> b, rejected |-> TRUE]
    ELSE [breaker |-> b, rejected |-> FALSE]

\* call_enter that starts the count afresh when it goes to HalfOpen
call_enter_forgets(b, t) ==
    LET b1 == [b EXCEPT !.stats.total_requests = @ + 1]
    IN  IF b1.state = OPEN
        THEN IF should_attempt_reset(b1, t)
             THEN [breaker |-> [b1 EXCEPT !.state = HALF_OPEN,
                                          !._failure_count = 0,
                                          !.stats.current_failure_count = 0],
                   rejected |-> FALSE]
             ELSE [breaker |-> b1, rejected |-> TRUE]
        ELSE [breaker |-> b1, rejected |-> FALSE]

\* call_enter without the _should_attempt_reset test
call_enter_unchecked(b, t) ==
    LET b1 == [b EXCEPT !.stats.total_requests = @ + 1]
    IN  IF b1.state = OPEN
        THEN [breaker |-> [b1 EXCEPT !.state = HALF_OPEN], rejected |-> FALSE]
        ELSE [breaker |-> b1, rejected |-> FALSE]

\* CircuitBreaker.call up to `await func(...)`: the breaker after the entry
\* code, and whether CircuitBreakerError was raised instead of calling func
call_enter(b, t) ==
    LET b1 == [b EXCEPT !.stats.total_requests = @ + 1]
    IN  IF b1.state = OPEN
        THEN IF should_attempt_reset(b1, t)
             THEN [breaker |-> [b1 EXCEPT !.state = HALF_OPEN], rejected |-> FALSE]
             ELSE [breaker |-> b1, rejected |-> TRUE]
        ELSE [breaker |-> b1, rejected |-> FALSE]

\* call_exit with every exception handled by the first except clause
call_exit_counts_all(b, outcome, t) ==
    IF outcome = "ok" THEN on_success(b, t) ELSE on_failure(b, t)

\* CircuitBreaker.call after func returned ("ok") or raised exception `outcome`
call_exit(b, outcome, t) ==
    IF outcome = "ok" THEN on_success(b, t)
    ELSE IF IsInstance(outcome, b.config.expected_exception) THEN on_failure(b, t)
    ELSE b

\* reset that closes the breaker and keeps the count
reset_keeps_count(b) == [b EXCEPT !.state = CLOSED]

\* reset that starts the statistics afresh as well
reset_clears_stats(b) ==
    [b EXCEPT !.state = CLOSED, !._failure_count = 0,
              !.stats = CircuitBreakerStats]

\* CircuitBreaker.reset
reset(b) ==
    [b EXCEPT !.state = CLOSED, !._failure_count = 0,
              !.stats.current_failure_count = 0]

\* ------------------------------------------------- the scenarios of section 8
\* A scenario is a list of breaker events; an event is a call arriving
\* ("arrive"), the operation returning ("ok") or raising a tracked exception
\* ("fail"), each at one of the given times.
Event(ev, times) == [ev |-> ev, times |-> times]
AnyTime == 0..(ScenarioMaxTime + 1)

\* failures at t = 0, 1, 2; a call at t = 3; a call at t = 6 that succeeds; a
\* failure at t = 7
ScenarioAsWritten ==
    << Event("arrive", {0}), Event("fail", {0}), Event("arrive", {1}),
       Event("fail", {1}), Event("arrive", {2}), Event("fail", {2}),
       Event("arrive", {3}),
       Event("arrive", {6}), Event("ok", AnyTime),
       Event("arrive", AnyTime), Event("fail", {7}) >>

\* the same with the probe at t = 7 and the last failure at t = 8
ScenarioShifted ==
    << Event("arrive", {0}), Event("fail", {0}), Event("arrive", {1}),
       Event("fail", {1}), Event("arrive", {2}), Event("fail", {2}),
       Event("arrive", {3}),
       Event("arrive", {7}), Event("ok", AnyTime),
       Event("arrive", AnyTime), Event("fail", {8}) >>

ScenarioConfig == CircuitBreakerConfig(3, 5, HttpxErrors, "default")

\* progress along a script: the number of its events the run has matched, and
\* whether the run is still on the script
OnScript(n) == [on |-> TRUE, stage |-> n]
OffScript == [on |-> FALSE, stage |-> 0]

Advance(script, at, ev, t) ==
    IF /\ at.on
       /\ at.stage < Len(script)
       /\ script[at.stage + 1].ev = ev
       /\ t \in script[at.stage + 1].times
    THEN OnScript(at.stage + 1)
    ELSE OffScript

Observe(ev, t) ==
    [written |-> Advance(ScenarioAsWritten, scenario.written, ev, t),
     shifted |-> Advance(ScenarioShifted, scenario.shifted, ev, t)]

\* ------------------------------------------------------- callers of call()
\* the calls so far: arrived, and of those that are over, how they ended
NoCalls == [arrived |-> 0, returned |-> 0, failed |-> 0, rejected |-> 0,
            untracked |-> 0, cancelled |-> 0]

Idle == [pc |-> "idle", probe |-> FALSE, at_entry |-> <<>>]

\* another caller acted on the breaker: the snapshot taken at entry no longer
\* describes "the breaker before this call"
Disturbed(call) == [call EXCEPT !.at_entry = <<>>]

Tracked(e) == IsInstance(e, cb.config.expected_exception)

\* `await breaker.call(func)` up to the await of func: lines 83-97
CallEnter(c, maxCalls) ==
    /\ calls[c].pc # "running"
    /\ cb.stats.total_requests < maxCalls
    /\ LET r == call_enter(cb, now)
       IN  /\ cb' = r.breaker
           /\ calls' = [d \in Callers |->
                 IF d # c THEN Disturbed(calls[d])
                 ELSE IF r.rejected
                      THEN [pc |-> "raised_breaker_error", probe |-> FALSE,
                            at_entry |-> <<>>]
                      ELSE [pc |-> "running",
                            probe |-> (cb.state = OPEN),
                            at_entry |-> <<cb>>]]
           /\ invocations' = IF r.rejected THEN invocations ELSE invocations + 1
           /\ tally' = [tally EXCEPT
                          !.arrived = @ + 1,
                          !.rejected = @ + (IF r.rejected THEN 1 ELSE 0)]
    /\ scenario' = Observe("arrive", now)
    /\ UNCHANGED <<now, streak, clientVars, opsVars, limVars>>

\* func returned: lines 97-99
OpReturns(c) ==
    /\ calls[c].pc = "running"
    /\ cb' = call_exit(cb, "ok", now)
    /\ calls' = [d \in Callers |->
          IF d # c THEN Disturbed(calls[d])
          ELSE [calls[c] EXCEPT !.pc = "returned"]]
    /\ streak' = 0
    /\ tally' = [tally EXCEPT !.returned = @ + 1]
    /\ scenario' = Observe("ok", now)
    /\ UNCHANGED <<now, invocations, clientVars, opsVars, limVars>>

\* func raised e: lines 101-107
OpRaises(c) ==
    /\ calls[c].pc = "running"
    /\ \E e \in OperationErrors :
          /\ cb' = call_exit(cb, e, now)
          /\ calls' = [d \in Callers |->
                IF d # c THEN (IF Tracked(e) THEN Disturbed(calls[d]) ELSE calls[d])
                ELSE [calls[c] EXCEPT !.pc = IF Tracked(e) THEN "raised_expected"
                                             ELSE "raised_unexpected"]]
          /\ streak' = IF Tracked(e) THEN streak + 1 ELSE streak
          /\ tally' = IF Tracked(e) THEN [tally EXCEPT !.failed = @ + 1]
                                    ELSE [tally EXCEPT !.untracked = @ + 1]
          /\ scenario' = Observe(IF Tracked(e) THEN "fail" ELSE "unexpected", now)
    /\ UNCHANGED <<now, invocations, clientVars, opsVars, limVars>>

\* the task that awaits func is cancelled: CancelledError is raised at the
\* await of line 97 and leaves call() past both except clauses
OpCancelled(c) ==
    /\ calls[c].pc = "running"
    /\ cb' = call_exit(cb, CancelledError, now)
    /\ calls' = [calls EXCEPT ![c].pc = "cancelled"]
    /\ tally' = [tally EXCEPT !.cancelled = @ + 1]
    /\ scenario' = Observe("cancelled", now)
    /\ UNCHANGED <<now, invocations, streak, clientVars, opsVars, limVars>>

\* the operator resets the breaker: CircuitBreaker.reset
Reset ==
    /\ cb' = reset(cb)
    /\ calls' = [d \in Callers |-> Disturbed(calls[d])]
    /\ streak' = 0
    /\ scenario' = Observe("reset", now)
    /\ UNCHANGED <<now, invocations, tally, clientVars, opsVars, limVars>>

\* time passes
Tick(maxTime) ==
    /\ now < maxTime
    /\ now' = now + 1
    /\ UNCHANGED <<breakerVars, clientVars, opsVars, limVars>>

\* ======================================================================
\* The registered breakers MLB_API_CIRCUIT_BREAKER and
\* DATABASE_CIRCUIT_BREAKER: calls through with_circuit_breaker, cancelled
\* calls, get_stats() and the operator's reset by name
\* ======================================================================
DatabaseConfig == CircuitBreakerConfig(3, 60, AnyException, "database")

BreakerNames == {"mlb_api", "database"}
\* the names the reset endpoint can be called with
RequestedNames == BreakerNames \cup {"unknown"}

Registered(name) == IF name = "mlb_api" THEN mlb_cb ELSE database_cb

Register(name, b) ==
    /\ mlb_cb' = IF name = "mlb_api" THEN b ELSE mlb_cb
    /\ database_cb' = IF name = "database" THEN b ELSE database_cb

NoOp == [pc |-> "idle", name |-> "none"]
Last(op, name, status) == [op |-> op, name |-> name, status |-> status]

\* CircuitBreaker.get_stats of breaker `name`: `return self.stats` hands out
\* the breaker's own stats object, not a copy of it; at_return is what the
\* object held when get_stats returned
get_stats(name) ==
    [object |-> name, copy |-> FALSE, at_return |-> Registered(name).stats]

NoStats == [object |-> "none", copy |-> FALSE, at_return |-> CircuitBreakerStats]

\* what the holder of a get_stats() result reads in it now
Seen(h) == IF h.copy THEN h.at_return ELSE Registered(h.object).stats

OpsFrame == UNCHANGED <<breakerVars, limVars, client_cb, limiter,
                        client_stats, reqs, started>>

\* a function decorated with_circuit_breaker(breaker) is awaited: the wrapper
\* of __call__ awaits breaker.call(func), up to the await of func
OpsCall(c, name, maxCalls) ==
    /\ ops[c].pc # "running"
    /\ mlb_cb.stats.total_requests + database_cb.stats.total_requests
          < maxCalls
    /\ LET r == call_enter(Registered(name), now)
       IN  /\ Register(name, r.breaker)
           /\ ops' = [ops EXCEPT ![c] =
                 [pc |-> IF r.rejected THEN "raised_breaker_error" ELSE "running",
                  name |-> name]]
           /\ last' = Last(IF r.rejected THEN "rejected" ELSE "call", name, "none")
    /\ UNCHANGED <<now, held>>
    /\ OpsFrame

\* func returned
OpsReturns(c) ==
    /\ ops[c].pc = "running"
    /\ Register(ops[c].name, call_exit(Registered(ops[c].name), "ok", now))
    /\ ops' = [ops EXCEPT ![c].pc = "returned"]
    /\ last' = Last("returned", ops[c].name, "none")
    /\ UNCHANGED <<now, held>>
    /\ OpsFrame

\* func raised e
OpsRaises(c) ==
    /\ ops[c].pc = "running"
    /\ \E e \in OperationErrors :
          /\ Register(ops[c].name, call_exit(Registered(ops[c].name), e, now))
          /\ ops' = [ops EXCEPT ![c].pc = "raised"]
          /\ last' = Last("raised", ops[c].name, "none")
    /\ UNCHANGED <<now, held>>
    /\ OpsFrame

\* the task awaiting func is cancelled: CancelledError is raised at the await
\* and goes through call() past both except clauses
OpsCancel(c) ==
    /\ ops[c].pc = "running"
    /\ Register(ops[c].name,
                call_exit(Registered(ops[c].name), CancelledError, now))
    /\ ops' = [ops EXCEPT ![c].pc = "cancelled"]
    /\ last' = Last("cancelled", ops[c].name, "none")
    /\ UNCHANGED <<now, held>>
    /\ OpsFrame

\* somebody calls get_stats() and keeps what it returned
GetStats(name) ==
    /\ held' = get_stats(name)
    /\ last' = Last("get_stats", name, "none")
    /\ UNCHANGED <<now, mlb_cb, database_cb, ops>>
    /\ OpsFrame

\* POST /admin/reset-circuit-breaker/{breaker_name}
ResetByName(breaker_name) ==
    /\ IF breaker_name = "mlb_api"
       THEN /\ Register("mlb_api", reset(mlb_cb))
            /\ last' = Last("reset", breaker_name, "200")
       ELSE IF breaker_name = "database"
       THEN /\ Register("database", reset(database_cb))
            /\ last' = Last("reset", breaker_name, "200")
       ELSE /\ UNCHANGED <<mlb_cb, database_cb>>
            /\ last' = Last("reset", breaker_name, "400")
    /\ UNCHANGED <<now, ops, held>>
    /\ OpsFrame

\* time passes, by the recovery_timeout of one of the breakers
OpsTick(maxTime) ==
    /\ \E name \in BreakerNames :
          /\ now + Registered(name).config.recovery_timeout <= maxTime
          /\ now' = now + Registered(name).config.recovery_timeout
    /\ last' = Last("tick", "none", "none")
    /\ UNCHANGED <<mlb_cb, database_cb, ops, held>>
    /\ OpsFrame

OpsVarsInit ==
    /\ database_cb = NewCircuitBreaker(DatabaseConfig)
    /\ ops = [c \in Callers |-> NoOp]
    /\ held = NoStats
    /\ last = Last("none", "none", "none")

\* ======================================================================
\* NetworkResilientClient and MLBStatsAPI._get
\* ======================================================================
Min(a, b) == IF a <= b THEN a ELSE b
Max(a, b) == IF a >= b THEN a ELSE b

\* ---------------------------------------------------------- float arithmetic
\* RateLimiter.tokens is a Python float: every operation on it is rounded to
\* the nearest value with a fixed number of significant bits, ties to even.
\* A float is carried here as a whole number of units of 2^-FracBits and keeps
\* MantissaBits significant bits (an IEEE-754 double keeps 53, which is more
\* than TLC's integers hold).
MantissaBits == 8
FracBits == 11
Unit == 2 ^ FracBits
\* floats up to MaxFloat units are rounded
MaxFloat == 16 * Unit

\* the number of low bits of x that do not fit in MantissaBits
Excess ==
    [x \in 0..MaxFloat |->
        CHOOSE k \in 0..(30 - MantissaBits) :
            /\ x < 2 ^ (MantissaBits + k)
            /\ k > 0 => x >= 2 ^ (MantissaBits + k - 1)]

\* n / d rounded to a whole number of 2^k, ties to even
RoundDiv(n, d, k) ==
    LET step == d * 2 ^ k
        q == n \div step
        r == n % step
    IN  IF 2 * r > step \/ (2 * r = step /\ q % 2 = 1)
        THEN (q + 1) * 2 ^ k
        ELSE q * 2 ^ k

\* the float nearest to x units
Fl == [x \in 0..MaxFloat |-> RoundDiv(x, 1, Excess[x])]

\* the float nearest to n / d, in units
FlDiv(n, d) == RoundDiv(n * Unit, d, Excess[(n * Unit) \div d])

\* ---------------------------------------------------------------- RateLimiter
\* RateLimiter.__init__ at time t; tokens is in units
NewRateLimiter(max_requests, time_window, t) ==
    [max_requests |-> max_requests, time_window |-> time_window,
     tokens |-> max_requests * Unit, last_refill |-> t]

\* acquire that takes no token
acquire_free(lim, t) ==
    LET elapsed == t - lim.last_refill
        tokens_to_add == Fl[elapsed * FlDiv(lim.max_requests, lim.time_window)]
        refilled == [lim EXCEPT
                       !.tokens = Min(lim.max_requests * Unit,
                                      Fl[lim.tokens + tokens_to_add]),
                       !.last_refill = t]
    IN  IF refilled.tokens >= Unit
        THEN [limiter |-> refilled, ok |-> TRUE]
        ELSE [limiter |-> refilled, ok |-> FALSE]

\* acquire without the cap of min(max_requests, ...)
acquire_uncapped(lim, t) ==
    LET elapsed == t - lim.last_refill
        tokens_to_add == Fl[elapsed * FlDiv(lim.max_requests, lim.time_window)]
        refilled == [lim EXCEPT !.tokens = Fl[lim.tokens + tokens_to_add],
                                !.last_refill = t]
    IN  IF refilled.tokens >= Unit
        THEN [limiter |-> [refilled EXCEPT !.tokens = Fl[@ - Unit]],
              ok |-> TRUE]
        ELSE [limiter |-> refilled, ok |-> FALSE]

\* RateLimiter.acquire at time t: the limiter after it, and what it returned
acquire(lim, t) ==
    LET elapsed == t - lim.last_refill
        tokens_to_add == Fl[elapsed * FlDiv(lim.max_requests, lim.time_window)]
        refilled == [lim EXCEPT
                       !.tokens = Min(lim.max_requests * Unit,
                                      Fl[lim.tokens + tokens_to_add]),
                       !.last_refill = t]
    IN  IF refilled.tokens >= Unit
        THEN [limiter |-> [refilled EXCEPT !.tokens = Fl[@ - Unit]],
              ok |-> TRUE]
        ELSE [limiter |-> refilled, ok |-> FALSE]

\* ---------------------------------------------- callers of the RateLimiter
\* (max_requests, time_window) of the limiters that are checked
LimiterConfigs == { <<1, 7>>, <<2, 3>> }

NoTwin(lim) == [set |-> FALSE, lim |-> lim, diverged |-> FALSE]

\* One acquire() at time t, with its history.  The twin is the limiter on
\* which one refused acquire() was not made: from the refusal on, every
\* acquire() is made on both, and the twin remembers whether the two ever
\* answered differently.
Acquired(t, track) ==
    LET a == acquire(limiter, t)
        b == acquire(twin.lim, t)
    IN  /\ limiter' = a.limiter
        /\ grants' = IF a.ok THEN Append(grants, t) ELSE grants
        /\ twin' = IF twin.set
                   THEN [twin EXCEPT !.lim = b.limiter,
                                     !.diverged = @ \/ (a.ok # b.ok)]
                   ELSE IF ~a.ok /\ track
                   THEN [set |-> TRUE, lim |-> limiter, diverged |-> FALSE]
                   ELSE NoTwin(a.limiter)

LimFrame == UNCHANGED <<now, breakerVars, opsVars, client_cb, mlb_cb,
                        client_stats, reqs, started>>

\* a caller awaits acquire()
Acquire(c) ==
    /\ lim_pc[c] # "polling"
    /\ \E track \in BOOLEAN : Acquired(now, track)
    /\ lim_pc' = [lim_pc EXCEPT ![c] = "idle"]
    /\ LimFrame

\* a caller awaits wait_for_token(): the first turn of its loop
WaitForToken(c) ==
    /\ lim_pc[c] # "polling"
    /\ \E track \in BOOLEAN : Acquired(now, track)
    /\ lim_pc' = [lim_pc EXCEPT ![c] =
                     IF acquire(limiter, now).ok THEN "returned" ELSE "polling"]
    /\ LimFrame

\* a turn of the loop that leaves it whatever acquire() answered
PollOnce(c) ==
    /\ lim_pc[c] = "polling"
    /\ \E track \in BOOLEAN : Acquired(now, track)
    /\ lim_pc' = [lim_pc EXCEPT ![c] = "returned"]
    /\ LimFrame

\* asyncio.sleep(0.1) of wait_for_token is over: the next turn of its loop
Poll(c) ==
    /\ lim_pc[c] = "polling"
    /\ \E track \in BOOLEAN : Acquired(now, track)
    /\ lim_pc' = [lim_pc EXCEPT ![c] =
                     IF acquire(limiter, now).ok THEN "returned" ELSE "polling"]
    /\ LimFrame

\* the task asleep in wait_for_token is cancelled: CancelledError is raised
\* at asyncio.sleep(0.1)
WaitCancelled(c) ==
    /\ lim_pc[c] = "polling"
    /\ lim_pc' = [lim_pc EXCEPT ![c] = "cancelled"]
    /\ UNCHANGED <<limiter, grants, twin>>
    /\ LimFrame

\* time passes
LimTick ==
    /\ now < LimiterMaxTime
    /\ now' = now + 1
    /\ UNCHANGED <<breakerVars, clientVars, opsVars, limVars>>

\* the caller that calls acquire() back to back has just been refused: it
\* has taken all there was to take at this instant
Drained == limiter.last_refill = now /\ limiter.tokens < Unit

\* time passes for a caller that calls acquire() back to back: by the next
\* instant it has been refused at this one
HammerTick ==
    /\ Drained
    /\ now < HammerMaxTime
    /\ now' = now + 1
    /\ UNCHANGED <<breakerVars, clientVars, opsVars, limVars>>

LimVarsInit ==
    /\ lim_pc = [c \in Callers |-> "idle"]
    /\ grants = <<>>
    /\ twin = NoTwin(limiter)

\* ------------------------------------------------------------------ tenacity
\* stop_after_attempt(3) of _make_request; wait_exponential(multiplier=1,
\* min=4, max=10)
StopAfterAttempt == 3
WaitMultiplier == 1
WaitMin == 4
WaitMax == 10
\* the same of MLBStatsAPI._get: stop_after_attempt(3),
\* wait_exponential(multiplier=1, min=2, max=10)
GetStopAfterAttempt == 3
GetWaitMultiplier == 1
GetWaitMin == 2
GetWaitMax == 10

\* wait_exponential without its bounds
wait_exponential_unbounded(attempt_number, multiplier, min, max) ==
    multiplier * 2 ^ (attempt_number - 1)

\* tenacity.wait_exponential.__call__ after attempt number `attempt_number`:
\* max(max(0, min), min(multiplier * 2 ** (attempt_number - 1), max))
wait_exponential(attempt_number, multiplier, min, max) ==
    Max(Max(0, min), Min(multiplier * 2 ^ (attempt_number - 1), max))

\* retry_if_exception_type((httpx.RequestError, httpx.HTTPStatusError))
Retryable(e) == IsInstance(e, HttpxErrors)
\* @retry without retry=: retry_if_exception_type() retries on any Exception
GetRetryable(e) == IsInstance(e, AnyException)

\* -------------------------------------------------- NetworkResilientClient
\* the default circuit_breaker_config of NetworkResilientClient.__init__, and
\* a configuration passed by the caller
DefaultClientConfig == CircuitBreakerConfig(5, 60, HttpxErrors, "http_client")
CustomClientConfig == CircuitBreakerConfig(1, 2, AnyException, "custom")
ClientConfigs == {DefaultClientConfig, CustomClientConfig}

\* MLB_API_CIRCUIT_BREAKER
MlbApiConfig == CircuitBreakerConfig(5, 300, HttpxErrors, "mlb_api")

ClientStats ==
    [total_requests |-> 0, successful_requests |-> 0, failed_requests |-> 0,
     rate_limited_requests |-> 0, circuit_breaker_rejections |-> 0]

\* A request of one caller.  pc: "idle", "rate_wait" (asleep in
\* wait_for_token), "request" (awaiting self.client.request), "backoff"
\* (tenacity's sleep of _make_request), "fallback" (awaiting
\* legacy_client.get), "outer_backoff" (tenacity's sleep of _get), "done".
\* The fields after `result` are history.  Of the current client request:
\* cb_calls, cb_succ, cb_fail (entries of the client's breaker, and the
\* successes and failures it recorded), last_error (of the last failed
\* attempt), to_breaker (what _make_request handed to CircuitBreaker.call),
\* client_result, throttled (its first acquire() was refused), tokens_taken
\* (its acquire()s that were granted).  Of the current logical request: seen (exceptions that went
\* through a breaker's call), counted (failures the breakers recorded),
\* mlb_calls (entries of MLB_API_CIRCUIT_BREAKER), retried_seen (exceptions
\* that went through a breaker's call and were then retried), rejections
\* (CircuitBreakerErrors a breaker raised for it).
NoRequest ==
    [pc |-> "idle", entry |-> "client", attempt_number |-> 0, outer_attempt |-> 0,
     wake_at |-> 0, err |-> "none", result |-> "none",
     cb_calls |-> 0, cb_succ |-> 0, cb_fail |-> 0,
     last_error |-> "none", to_breaker |-> "none", client_result |-> "none",
     throttled |-> FALSE, tokens_taken |-> 0,
     seen |-> 0, counted |-> 0, mlb_calls |-> 0, retried_seen |-> 0,
     rejections |-> 0]

\* the state one caller's code runs on: the shared objects and its own request
Sys(c) ==
    [cb |-> client_cb, mlb |-> mlb_cb, limiter |-> limiter,
     stats |-> client_stats, req |-> reqs[c]]

\* ---- MLBStatsAPI._get, outside in

\* the @retry of _get after an attempt raised e: sleep, or give up with
\* RetryError (reraise is not set)
get_retry(s, e, t) ==
    IF GetRetryable(e) /\ s.req.outer_attempt < GetStopAfterAttempt
    THEN [s EXCEPT !.req.pc = "outer_backoff",
                   !.req.wake_at = t + wait_exponential(s.req.outer_attempt,
                                       GetWaitMultiplier, GetWaitMin, GetWaitMax)]
    ELSE [s EXCEPT !.req.pc = "done",
                   !.req.result = IF GetRetryable(e) THEN RetryError ELSE e]

\* MLB_API_CIRCUIT_BREAKER.call after the body of _get returned or raised
get_exit(s, outcome, t) ==
    LET b1 == call_exit(s.mlb, outcome, t)
        retried == /\ outcome # "ok"
                   /\ GetRetryable(outcome)
                   /\ s.req.outer_attempt < GetStopAfterAttempt
        s1 == [s EXCEPT
                 !.mlb = b1,
                 !.req.seen = @ + (IF outcome = "ok" THEN 0 ELSE 1),
                 !.req.retried_seen = @ + (IF retried THEN 1 ELSE 0),
                 !.req.counted = @ + (b1.stats.failed_requests
                                        - s.mlb.stats.failed_requests)]
    IN  IF outcome = "ok"
        THEN [s1 EXCEPT !.req.pc = "done", !.req.result = "ok"]
        ELSE get_retry(s1, outcome, t)

\* the body of _get after `await self.client.get(...)` ended with `result`:
\* return response.json(), or go to the legacy client
get_after_client(s, result, json_ok, t) ==
    IF result = "ok" /\ json_ok
    THEN get_exit(s, "ok", t)
    ELSE [s EXCEPT !.req.pc = "fallback",
                   !.req.err = IF result = "ok" THEN ValueError ELSE result]

\* the body of _get after `await self.legacy_client.get(...)`: the fallback's
\* answer, or `raise e`, the original error
get_after_fallback(s, fallback_ok, t) ==
    IF fallback_ok THEN get_exit(s, "ok", t) ELSE get_exit(s, s.req.err, t)

\* ---- NetworkResilientClient._resilient_request, inside out

\* _resilient_request ended with `result`: back in the caller
client_finished(s, result, json_ok, t) ==
    LET s1 == [s EXCEPT !.req.client_result = result]
    IN  IF s.req.entry = "client"
        THEN [s1 EXCEPT !.req.pc = "done", !.req.result = result]
        ELSE get_after_client(s1, result, json_ok, t)

\* self.circuit_breaker.call after _make_request ended with `outcome`, and the
\* handlers of _resilient_request (lines 259-268)
client_exit(s, outcome, json_ok, t) ==
    LET b1 == call_exit(s.cb, outcome, t)
        failed == b1.stats.failed_requests - s.cb.stats.failed_requests
        s1 == [s EXCEPT
                 !.cb = b1,
                 !.req.to_breaker = outcome,
                 !.req.cb_succ = @ + (b1.stats.successful_requests
                                        - s.cb.stats.successful_requests),
                 !.req.cb_fail = @ + failed,
                 !.req.seen = @ + (IF outcome = "ok" THEN 0 ELSE 1),
                 !.req.counted = @ + failed]
        s2 == IF outcome = "ok"
              THEN [s1 EXCEPT !.stats.successful_requests = @ + 1]
              ELSE [s1 EXCEPT !.stats.failed_requests = @ + 1]
    IN  client_finished(s2, outcome, json_ok, t)

\* one attempt of _make_request ended with error e, and every attempt of one
\* logical request reports its failure to the breaker
make_request_raised_each_counted(s, e, json_ok, t) ==
    LET s0 == [s EXCEPT !.req.last_error = e]
    IN  IF Retryable(e) /\ s.req.attempt_number < StopAfterAttempt
        THEN [s0 EXCEPT !.cb = on_failure(s.cb, t),
                        !.req.pc = "backoff",
                        !.req.wake_at = t + wait_exponential(s.req.attempt_number,
                                              WaitMultiplier, WaitMin, WaitMax)]
        ELSE client_exit(s0, IF Retryable(e) THEN RetryError ELSE e, json_ok, t)

\* one attempt of _make_request ended with error e, and an attempt that is
\* to be followed by another asks the limiter again
make_request_raised_asks_again(s, e, json_ok, t) ==
    LET s0 == [s EXCEPT !.req.last_error = e]
        a == acquire(s.limiter, t)
    IN  IF Retryable(e) /\ s.req.attempt_number < StopAfterAttempt
        THEN [s0 EXCEPT !.limiter = a.limiter,
                        !.req.tokens_taken = @ + (IF a.ok THEN 1 ELSE 0),
                        !.req.pc = "backoff",
                        !.req.wake_at = t + wait_exponential(s.req.attempt_number,
                                              WaitMultiplier, WaitMin, WaitMax)]
        ELSE client_exit(s0, IF Retryable(e) THEN RetryError ELSE e, json_ok, t)

\* one attempt of _make_request ended with error e (from self.client.request
\* or raise_for_status): tenacity sleeps and tries again, gives up with
\* RetryError (reraise is not set), or lets a non-retryable e through
make_request_raised(s, e, json_ok, t) ==
    LET s0 == [s EXCEPT !.req.last_error = e]
    IN  IF Retryable(e) /\ s.req.attempt_number < StopAfterAttempt
        THEN [s0 EXCEPT !.req.pc = "backoff",
                        !.req.wake_at = t + wait_exponential(s.req.attempt_number,
                                              WaitMultiplier, WaitMin, WaitMax)]
        ELSE client_exit(s0, IF Retryable(e) THEN RetryError ELSE e, json_ok, t)

\* one attempt of _make_request returned the response
make_request_returned(s, json_ok, t) == client_exit(s, "ok", json_ok, t)

\* the same with a rejection handled as a failure of the operation
breaker_stage_rejection_fails(s, t) ==
    LET r == call_enter(s.cb, t)
        s1 == [s EXCEPT !.cb = r.breaker, !.req.cb_calls = @ + 1]
    IN  IF r.rejected
        THEN client_finished(
                 [s1 EXCEPT !.cb = on_failure(r.breaker, t),
                            !.stats.failed_requests = @ + 1,
                            !.req.rejections = @ + 1],
                 CircuitBreakerError, TRUE, t)
        ELSE [s1 EXCEPT !.req.pc = "request", !.req.attempt_number = 1]

\* _resilient_request from `self.circuit_breaker.call(...)` on (line 259)
breaker_stage(s, t) ==
    LET r == call_enter(s.cb, t)
        s1 == [s EXCEPT !.cb = r.breaker, !.req.cb_calls = @ + 1]
    IN  IF r.rejected
        THEN client_finished(
                 [s1 EXCEPT !.stats.circuit_breaker_rejections = @ + 1,
                            !.req.rejections = @ + 1],
                 CircuitBreakerError, TRUE, t)
        ELSE [s1 EXCEPT !.req.pc = "request", !.req.attempt_number = 1]

\* one turn of the loop of wait_for_token, and a refused turn is reported to
\* the breaker as a failure of the dependency
wait_for_token_counts_throttle(s, t) ==
    LET a == acquire(s.limiter, t)
        s1 == [s EXCEPT !.limiter = a.limiter,
                        !.req.tokens_taken = @ + (IF a.ok THEN 1 ELSE 0)]
    IN  IF a.ok THEN breaker_stage(s1, t)
        ELSE [s1 EXCEPT !.cb = on_failure(s.cb, t), !.req.pc = "rate_wait"]

\* RateLimiter.wait_for_token: one turn of its loop
wait_for_token(s, t) ==
    LET a == acquire(s.limiter, t)
        s1 == [s EXCEPT !.limiter = a.limiter,
                        !.req.tokens_taken = @ + (IF a.ok THEN 1 ELSE 0)]
    IN  IF a.ok THEN breaker_stage(s1, t)
        ELSE [s1 EXCEPT !.req.pc = "rate_wait"]

\* NetworkResilientClient._resilient_request from its first line
resilient_request(s, t) ==
    LET a == acquire(s.limiter, t)
        s1 == [s EXCEPT !.stats.total_requests = @ + 1,
                        !.limiter = a.limiter,
                        !.req.cb_calls = 0, !.req.cb_succ = 0, !.req.cb_fail = 0,
                        !.req.last_error = "none", !.req.to_breaker = "none",
                        !.req.client_result = "none", !.req.attempt_number = 0,
                        !.req.throttled = ~a.ok,
                        !.req.tokens_taken = IF a.ok THEN 1 ELSE 0]
    IN  IF a.ok THEN breaker_stage(s1, t)
        ELSE wait_for_token(
                 [s1 EXCEPT !.stats.rate_limited_requests = @ + 1], t)

\* one attempt of the retried _get: MLB_API_CIRCUIT_BREAKER.call, then the body
get_attempt(s, t) ==
    LET r == call_enter(s.mlb, t)
        s1 == [s EXCEPT !.mlb = r.breaker, !.req.mlb_calls = @ + 1,
                        !.req.outer_attempt = @ + 1]
    IN  IF r.rejected
        THEN get_retry([s1 EXCEPT !.req.seen = @ + 1,
                                  !.req.rejections = @ + 1],
                       CircuitBreakerError, t)
        ELSE resilient_request(s1, t)

\* ------------------------------------------------------------ the actions
Commit(c, s) ==
    /\ client_cb' = s.cb
    /\ mlb_cb' = s.mlb
    /\ limiter' = s.limiter
    /\ client_stats' = s.stats
    /\ reqs' = [reqs EXCEPT ![c] = s.req]

Fresh(c, entry) == [Sys(c) EXCEPT !.req = [NoRequest EXCEPT !.entry = entry]]

CanStart(c) ==
    /\ reqs[c].pc \in {"idle", "done"}
    /\ started < MaxRequests

\* a caller awaits NetworkResilientClient.get / post
ClientGet(c) ==
    /\ CanStart(c)
    /\ Commit(c, resilient_request(Fresh(c, "client"), now))
    /\ started' = started + 1
    /\ UNCHANGED <<now, breakerVars, opsVars, limVars>>

\* a caller awaits MLBStatsAPI._get
ApiGet(c) ==
    /\ CanStart(c)
    /\ Commit(c, get_attempt(Fresh(c, "api"), now))
    /\ started' = started + 1
    /\ UNCHANGED <<now, breakerVars, opsVars, limVars>>

\* asyncio.sleep(0.1) of wait_for_token is over
PollWake(c) ==
    /\ reqs[c].pc = "rate_wait"
    /\ Commit(c, wait_for_token(Sys(c), now))
    /\ UNCHANGED <<now, breakerVars, opsVars, limVars, started>>

\* self.client.request answered and raise_for_status passed
RequestReturns(c) ==
    /\ reqs[c].pc = "request"
    /\ \E json_ok \in BOOLEAN :
          Commit(c, make_request_returned(Sys(c), json_ok, now))
    /\ UNCHANGED <<now, breakerVars, opsVars, limVars, started>>

\* self.client.request or raise_for_status raised
RequestRaises(c) ==
    /\ reqs[c].pc = "request"
    /\ \E e \in OperationErrors :
          Commit(c, make_request_raised(Sys(c), e, TRUE, now))
    /\ UNCHANGED <<now, breakerVars, opsVars, limVars, started>>

\* tenacity's sleep between two attempts of _make_request is over
BackoffWake(c) ==
    /\ reqs[c].pc = "backoff"
    /\ now >= reqs[c].wake_at
    /\ reqs' = [reqs EXCEPT ![c].pc = "request", ![c].attempt_number = @ + 1]
    /\ UNCHANGED <<now, breakerVars, opsVars, limVars, client_cb, mlb_cb, limiter,
                   client_stats, started>>

\* legacy_client.get answered: with a good response, or not
FallbackEnds(c) ==
    /\ reqs[c].pc = "fallback"
    /\ \E fallback_ok \in BOOLEAN :
          Commit(c, get_after_fallback(Sys(c), fallback_ok, now))
    /\ UNCHANGED <<now, breakerVars, opsVars, limVars, started>>

\* tenacity's sleep between two attempts of _get is over
OuterBackoffWake(c) ==
    /\ reqs[c].pc = "outer_backoff"
    /\ now >= reqs[c].wake_at
    /\ Commit(c, get_attempt(Sys(c), now))
    /\ UNCHANGED <<now, breakerVars, opsVars, limVars, started>>

\* failing_function of test_network_resilience is awaited: a function
\* decorated with_circuit_breaker(MLB_API_CIRCUIT_BREAKER) that raises
\* httpx.RequestError without suspending
FailingFunction ==
    /\ mlb_cb.stats.failed_requests < MaxFailing
    /\ LET r == call_enter(mlb_cb, now)
       IN  mlb_cb' = IF r.rejected THEN r.breaker
                     ELSE call_exit(r.breaker, RequestError, now)
    /\ UNCHANGED <<now, breakerVars, opsVars, limVars, client_cb, limiter,
                   client_stats, reqs, started>>

\* time passes; the client is observed every other second (its delays are
\* 2 and 4 seconds)
ClientTick(maxTime) ==
    /\ now + 2 <= maxTime
    /\ now' = now + 2
    /\ UNCHANGED <<breakerVars, clientVars, opsVars, limVars>>

ClientVarsInit ==
    /\ mlb_cb = NewCircuitBreaker(MlbApiConfig)
    /\ limiter = NewRateLimiter(LimiterRequests, LimiterWindow, 0)
    /\ client_stats = ClientStats
    /\ reqs = [c \in Callers |-> NoRequest]
    /\ started = 0

ClientInit ==
    /\ now = 0
    /\ \E config \in ClientConfigs : client_cb = NewCircuitBreaker(config)
    /\ ClientVarsInit
    /\ OpsVarsInit
    /\ LimVarsInit
    /\ cb = NewCircuitBreaker(ScenarioConfig)
    /\ scenario = [written |-> OffScript, shifted |-> OffScript]
    /\ calls = [c \in Callers |-> Idle]
    /\ invocations = 0
    /\ streak = 0
    /\ tally = NoCalls

ClientNext ==
    \/ \E c \in Callers : ClientGet(c)
    \/ \E c \in Callers : PollWake(c)
    \/ \E c \in Callers : RequestReturns(c)
    \/ \E c \in Callers : RequestRaises(c)
    \/ \E c \in Callers : BackoffWake(c)
    \/ ClientTick(ClientMaxTime)

SpecClient == ClientInit /\ [][ClientNext]_vars

\* requests through MLBStatsAPI._get, which wraps the client that
\* MLBStatsAPI.__init__ builds (with the default breaker configuration)
ApiInit ==
    /\ ClientInit
    /\ client_cb = NewCircuitBreaker(DefaultClientConfig)

ApiNext ==
    \/ \E c \in Callers : ApiGet(c)
    \/ \E c \in Callers : PollWake(c)
    \/ \E c \in Callers : RequestReturns(c)
    \/ \E c \in Callers : RequestRaises(c)
    \/ \E c \in Callers : BackoffWake(c)
    \/ \E c \in Callers : FallbackEnds(c)
    \/ \E c \in Callers : OuterBackoffWake(c)
    \/ ClientTick(ApiMaxTime)

SpecApi == ApiInit /\ [][ApiNext]_vars

\* a caller awaits MLBStatsAPI._get, whose client has the default breaker
\* configuration
DefaultApiGet(c) ==
    /\ client_cb.config = DefaultClientConfig
    /\ ApiGet(c)

\* requests through a client and through _get, in a process in which
\* failing_function runs as well; the client of _get is the one that
\* MLBStatsAPI.__init__ builds, with the default breaker configuration
RejectsNext ==
    \/ \E c \in Callers : ClientGet(c)
    \/ \E c \in Callers : DefaultApiGet(c)
    \/ \E c \in Callers : PollWake(c)
    \/ \E c \in Callers : RequestReturns(c)
    \/ \E c \in Callers : RequestRaises(c)
    \/ \E c \in Callers : BackoffWake(c)
    \/ \E c \in Callers : FallbackEnds(c)
    \/ \E c \in Callers : OuterBackoffWake(c)
    \/ FailingFunction
    \/ ClientTick(RejectsMaxTime)

SpecRejects == ClientInit /\ [][RejectsNext]_vars

\* ======================================================================
\* The breaker alone: callers of CircuitBreaker.call and the operator
\* ======================================================================
Init ==
    /\ now = 0
    /\ \E config \in Configs : cb = NewCircuitBreaker(config)
    /\ scenario = [written |-> OffScript, shifted |-> OffScript]
    /\ calls = [c \in Callers |-> Idle]
    /\ invocations = 0
    /\ streak = 0
    /\ tally = NoCalls
    /\ client_cb = NewCircuitBreaker(DefaultClientConfig)
    /\ ClientVarsInit
    /\ OpsVarsInit
    /\ LimVarsInit

Next ==
    \/ \E c \in Callers : CallEnter(c, MaxCalls)
    \/ \E c \in Callers : OpReturns(c)
    \/ \E c \in Callers : OpRaises(c)
    \/ Reset
    \/ Tick(MaxTime)

Spec == Init /\ [][Next]_vars

\* ------------------------------------------------ the registered breakers
OpsInit ==
    /\ now = 0
    /\ client_cb = NewCircuitBreaker(DefaultClientConfig)
    /\ ClientVarsInit
    /\ OpsVarsInit
    /\ LimVarsInit
    /\ cb = NewCircuitBreaker(ScenarioConfig)
    /\ scenario = [written |-> OffScript, shifted |-> OffScript]
    /\ calls = [c \in Callers |-> Idle]
    /\ invocations = 0
    /\ streak = 0
    /\ tally = NoCalls

OpsNext ==
    \/ \E c \in Callers, name \in BreakerNames : OpsCall(c, name, OpsMaxCalls)
    \/ \E c \in Callers : OpsReturns(c)
    \/ \E c \in Callers : OpsRaises(c)
    \/ \E c \in Callers : OpsCancel(c)
    \/ \E breaker_name \in RequestedNames : ResetByName(breaker_name)
    \/ OpsTick(OpsMaxTime)

SpecOps == OpsInit /\ [][OpsNext]_vars

\* the same with somebody who holds on to what get_stats() returned
StatsNext ==
    \/ \E c \in Callers, name \in BreakerNames : OpsCall(c, name, StatsMaxCalls)
    \/ \E c \in Callers : OpsReturns(c)
    \/ \E c \in Callers : OpsRaises(c)
    \/ \E c \in Callers : OpsCancel(c)
    \/ \E name \in BreakerNames : GetStats(name)
    \/ \E breaker_name \in RequestedNames : ResetByName(breaker_name)
    \/ OpsTick(StatsMaxTime)

SpecStats == OpsInit /\ [][StatsNext]_vars

\* ------------------------------------------------------ the limiter alone
LimInit ==
    /\ now = 0
    /\ \E config \in LimiterConfigs :
          limiter = NewRateLimiter(config[1], config[2], 0)
    /\ LimVarsInit
    /\ OpsVarsInit
    /\ client_cb = NewCircuitBreaker(DefaultClientConfig)
    /\ mlb_cb = NewCircuitBreaker(MlbApiConfig)
    /\ client_stats = ClientStats
    /\ reqs = [c \in Callers |-> NoRequest]
    /\ started = 0
    /\ cb = NewCircuitBreaker(ScenarioConfig)
    /\ scenario = [written |-> OffScript, shifted |-> OffScript]
    /\ calls = [c \in Callers |-> Idle]
    /\ invocations = 0
    /\ streak = 0
    /\ tally = NoCalls

LimNext ==
    \/ \E c \in Callers : Acquire(c)
    \/ \E c \in Callers : WaitForToken(c)
    \/ \E c \in Callers : Poll(c)
    \/ LimTick

SpecLimiter == LimInit /\ [][LimNext]_vars

\* a single caller of the limiter; time advances (up to LimiterMaxTime) and
\* the loop of wait_for_token goes on after each asyncio.sleep
Waiter == 1

WaiterNext ==
    \/ Acquire(Waiter)
    \/ WaitForToken(Waiter)
    \/ Poll(Waiter)
    \/ LimTick

\* a single caller that calls acquire() back to back
HammerNext ==
    \/ Acquire(Waiter)
    \/ HammerTick

SpecHammer == LimInit /\ [][HammerNext]_vars

SpecWaiter ==
    /\ LimInit
    /\ [][WaiterNext]_vars
    /\ WF_vars(Poll(Waiter))
    /\ WF_vars(LimTick)

\* ------------------------------------------------- callers that are cancelled
\* Calls through a breaker and waits on a limiter that may be cancelled.  A
\* CircuitBreaker and a RateLimiter share no field: a run exercises one of the
\* two objects.
BreakerUntouched == tally.arrived = 0
LimiterUntouched ==
    /\ \A c \in Callers : lim_pc[c] = "idle"
    /\ grants = <<>>

\* a call through the breaker in a run that leaves the limiter alone
CallAlone(c) ==
    /\ LimiterUntouched
    /\ CallEnter(c, CancelMaxCalls)

\* a wait on the limiter in a run that leaves the breaker alone
WaitAlone(c) ==
    /\ BreakerUntouched
    /\ WaitForToken(c)

CancelNext ==
    \/ \E c \in Callers : CallAlone(c)
    \/ \E c \in Callers : OpReturns(c)
    \/ \E c \in Callers : OpRaises(c)
    \/ \E c \in Callers : OpCancelled(c)
    \/ \E c \in Callers : WaitAlone(c)
    \/ \E c \in Callers : Poll(c)
    \/ \E c \in Callers : WaitCancelled(c)
    \/ Tick(CancelMaxTime)

SpecCancel == Init /\ [][CancelNext]_vars

\* ---------------------------------------------- the scenario of section 8
\* One caller, failure_threshold = 3, recovery_timeout = 5, and time enough
\* for the scenario; the caller is free to leave the scenario at any step.
ScenarioCaller == 1

ScenarioInit ==
    /\ now = 0
    /\ cb = NewCircuitBreaker(ScenarioConfig)
    /\ scenario = [written |-> OnScript(0), shifted |-> OnScript(0)]
    /\ calls = [c \in Callers |-> Idle]
    /\ invocations = 0
    /\ streak = 0
    /\ tally = NoCalls
    /\ client_cb = NewCircuitBreaker(DefaultClientConfig)
    /\ ClientVarsInit
    /\ OpsVarsInit
    /\ LimVarsInit

ScenarioNext ==
    \/ CallEnter(ScenarioCaller, ScenarioMaxCalls)
    \/ OpReturns(ScenarioCaller)
    \/ OpRaises(ScenarioCaller)
    \/ Reset
    \/ Tick(ScenarioMaxTime)

SpecScenario == ScenarioInit /\ [][ScenarioNext]_vars

\* ======================================================================
\* Properties of the circuit breaker
\* ======================================================================
Threshold == cb.config.failure_threshold
Running(c) == calls[c].pc = "running"
\* the step in which c's operation ends with outcome pc
Completes(c, pc) == Running(c) /\ calls'[c].pc = pc
\* the step in which some call() arrives
Arrives == cb'.stats.total_requests = cb.stats.total_requests + 1
\* the arriving call was let through to the operation
LetThrough ==
    /\ invocations' = invocations + 1
    /\ \E c \in Callers : ~Running(c) /\ calls'[c].pc = "running"
\* the arriving call was rejected: nobody started the operation
Rejected ==
    /\ invocations' = invocations
    /\ \A c \in Callers : calls'[c].pc = "running" => Running(c)
    /\ \E c \in Callers : calls'[c].pc = "raised_breaker_error"
RecoveryElapsed == now - cb._last_failure_time >= cb.config.recovery_timeout

\* C1: the count of consecutive tracked failures is the breaker's
\* _failure_count; a Closed breaker has seen fewer than failure_threshold of
\* them; the tracked failure that brings the run to failure_threshold opens a
\* Closed breaker and no earlier one does; a success resets the count to 0;
\* and the breaker only ever opens with a run of at least failure_threshold.
C1_TripOnNthFailure ==
    /\ [](streak = cb._failure_count /\ streak = cb.stats.current_failure_count)
    /\ [](cb.state = CLOSED => streak < Threshold)
    /\ [][\A c \in Callers :
            /\ (Completes(c, "raised_expected") /\ cb.state = CLOSED) =>
                  /\ streak' = streak + 1
                  /\ (streak' = Threshold) => cb'.state = OPEN
                  /\ (streak' < Threshold) => cb'.state = CLOSED
            /\ Completes(c, "returned") =>
                  streak' = 0 /\ cb'._failure_count = 0
            /\ (cb.state # OPEN /\ cb'.state = OPEN) => streak' >= Threshold
         ]_vars

\* C1 witness: a breaker with threshold >= 2 tripped by exactly threshold failures
C1_Witness ==
    /\ cb.state = OPEN
    /\ Threshold >= 2
    /\ streak = Threshold
    /\ cb.stats.circuit_opens = 1
    /\ cb.stats.successful_requests >= 1

\* C2: a call that arrives while the breaker is Open and recovery_timeout has
\* not elapsed since the last failure is rejected: the operation is not
\* invoked, whatever the number of such calls.
C2_FailFastWhileOpen ==
    [][(Arrives /\ cb.state = OPEN /\ ~RecoveryElapsed) =>
          (Rejected /\ cb'.state = OPEN)]_vars

\* C2 witness: two calls were rejected by an Open breaker
C2_Witness ==
    /\ cb.state = OPEN
    /\ ~RecoveryElapsed
    /\ cb.stats.total_requests - invocations >= 2

\* C3: a call that arrives while the half-open probe is still in flight is
\* rejected and does not invoke the operation.
C3_NoDoubleProbe ==
    [][(Arrives /\ cb.state = HALF_OPEN
               /\ \E p \in Callers : Running(p) /\ calls[p].probe) =>
          Rejected]_vars

\* C4: in a HalfOpen breaker, the probe's success closes the breaker with a
\* zero count, and the probe's tracked failure re-opens it and records the
\* time of the failure.
C4_ProbeDecides ==
    [][\A c \in Callers :
          (Running(c) /\ calls[c].probe /\ cb.state = HALF_OPEN) =>
             /\ Completes(c, "returned") =>
                   cb'.state = CLOSED /\ cb'._failure_count = 0
             /\ Completes(c, "raised_expected") =>
                   cb'.state = OPEN /\ cb'._last_failure_time = now
      ]_vars

\* c's client request is over after three attempts that all failed with a
\* retryable error
Exhausted(c) ==
    /\ reqs[c].attempt_number = StopAfterAttempt
    /\ reqs[c].client_result \notin {"none", "ok"}
    /\ Retryable(reqs[c].last_error)

\* C5: when all three attempts of a request fail with a retryable error, the
\* exception handed to CircuitBreaker.call is the last attempt's exception,
\* and the breaker was entered once and recorded one failure for the request.
C5_ExhaustedRetriesCountOnce ==
    \A c \in Callers :
        Exhausted(c) =>
            /\ reqs[c].to_breaker = reqs[c].last_error
            /\ reqs[c].cb_calls = 1
            /\ reqs[c].cb_fail = 1

\* c's client request is over: its third attempt succeeded
ThirdTimeLucky(c) ==
    /\ reqs[c].attempt_number = StopAfterAttempt
    /\ reqs[c].client_result = "ok"

\* C6: a request whose third attempt succeeds entered the breaker once and
\* the breaker recorded one success and no failure for it: the failed
\* attempts and the sleeps between them leave the breaker alone, and the
\* step of the third attempt's success adds one success, no failure and no
\* request, and zeroes the count.
C6_RetriesCountAsOneSuccess ==
    /\ [](\A c \in Callers :
            ThirdTimeLucky(c) =>
                /\ reqs[c].cb_calls = 1
                /\ reqs[c].cb_succ = 1
                /\ reqs[c].cb_fail = 0
                /\ reqs[c].to_breaker = "ok")
    /\ [][\A c \in Callers :
            /\ (reqs[c].pc \in {"request", "backoff"}
                    /\ reqs'[c].pc \in {"request", "backoff"}
                    /\ reqs'[c] # reqs[c])
                  => client_cb' = client_cb
            /\ (reqs[c].pc = "request" /\ ThirdTimeLucky(c)')
                  => /\ client_cb'.stats.successful_requests
                          = client_cb.stats.successful_requests + 1
                     /\ client_cb'.stats.failed_requests
                          = client_cb.stats.failed_requests
                     /\ client_cb'.stats.total_requests
                          = client_cb.stats.total_requests
                     /\ client_cb'._failure_count = 0
                     /\ client_cb'.stats.current_failure_count = 0
         ]_vars

\* C6 witness: a request is over whose third attempt succeeded
C6_Witness ==
    \E c \in Callers :
        /\ ThirdTimeLucky(c)
        /\ reqs[c].pc = "done"
        /\ reqs[c].last_error \in HttpxErrors

\* C7: for one logical request, no exception that went through a breaker's
\* call() is absorbed by a retry afterwards, a breaker is entered once (it
\* wraps the retry loop), and the breakers record at most one failure.
C7_BreakerWrapsRetry ==
    \A c \in Callers :
        /\ reqs[c].retried_seen = 0
        /\ reqs[c].mlb_calls <= 1
        /\ reqs[c].counted <= 1

\* what section 8's scenario says of the breaker after each of its events, for
\* a run that has matched `stage` events of it
ScenarioOutcome(at) ==
    LET stage == IF at.on THEN at.stage ELSE 0 IN
    /\ stage = 6 => cb.state = OPEN
    /\ stage = 7 =>
          /\ invocations = 3
          /\ calls[ScenarioCaller].pc = "raised_breaker_error"
    /\ stage = 8 =>
          /\ invocations = 4
          /\ cb.state = HALF_OPEN
          /\ calls[ScenarioCaller].pc = "running"
    /\ stage = 9 => cb.state = CLOSED
    /\ stage = 11 =>
          /\ cb.state = CLOSED
          /\ cb._failure_count = 1
          /\ cb.stats.current_failure_count = 1

\* C8 as written: failures at t = 0, 1, 2 open the breaker; the call at t = 3
\* is rejected; the call at t = 6 is let through; its success closes the
\* breaker and a failure at t = 7 counts as 1.
C8_ScenarioAsWritten == ScenarioOutcome(scenario.written)

\* C8 amended: the same with the probe at t = 7 (recovery_timeout after the
\* failure at t = 2) and the last failure at t = 8.
C8_ScenarioShifted == ScenarioOutcome(scenario.shifted)

\* C8 witness: the whole shifted scenario has run
C8_Witness == scenario.shifted = OnScript(11)

\* C9: a call that arrives while the breaker is Open and recovery_timeout has
\* elapsed since the last failure (boundary included) is let through and
\* leaves the breaker HalfOpen.
C9_ProbeAfterTimeout ==
    [][(Arrives /\ cb.state = OPEN /\ RecoveryElapsed) =>
          (LetThrough /\ cb'.state = HALF_OPEN)]_vars

\* C9 witness: a probe let through exactly recovery_timeout after the failure
C9_Witness ==
    /\ cb.state = HALF_OPEN
    /\ now - cb._last_failure_time = cb.config.recovery_timeout
    /\ \E c \in Callers : Running(c) /\ calls[c].probe

\* the fields an untracked exception must leave alone, state apart
SameCounts(b, e) ==
    /\ b._failure_count = e._failure_count
    /\ b.stats.current_failure_count = e.stats.current_failure_count
    /\ b.stats.failed_requests = e.stats.failed_requests
    /\ b.stats.circuit_opens = e.stats.circuit_opens
    /\ b._last_failure_time = e._last_failure_time
    /\ b.stats.last_failure_time = e.stats.last_failure_time

\* c's call ended with an untracked exception and nothing else touched the
\* breaker since the call arrived
UntrackedAlone(c) ==
    calls[c].pc = "raised_unexpected" /\ calls[c].at_entry # <<>>

\* C10 as written: after a call that ended with an untracked exception the
\* state and the failure fields are those of the moment the call arrived.
C10_UntrackedRestoresArrival ==
    \A c \in Callers :
        UntrackedAlone(c) =>
            /\ SameCounts(cb, calls[c].at_entry[1])
            /\ cb.state = calls[c].at_entry[1].state

\* C10 amended: the failure fields are those of the moment the call arrived,
\* and so is the state, except that a call that arrived in Open (with
\* recovery_timeout elapsed) leaves the breaker HalfOpen.
C10_UntrackedFrame ==
    \A c \in Callers :
        UntrackedAlone(c) =>
            /\ SameCounts(cb, calls[c].at_entry[1])
            /\ cb.state = IF calls[c].at_entry[1].state = OPEN THEN HALF_OPEN
                           ELSE calls[c].at_entry[1].state

\* C10 witness: an untracked exception ended a call that arrived in Open
C10_Witness ==
    \E c \in Callers :
        /\ UntrackedAlone(c)
        /\ calls[c].at_entry[1].state = OPEN
        /\ cb.state = HALF_OPEN

\* ======================================================================
\* Properties of the registered breakers
\* ======================================================================
Count(name) == Registered(name)._failure_count
StatsOf(name) == Registered(name).stats

\* C11: in every state of both breakers, whatever the interleaving of calls,
\* cancelled calls and resets, successful_requests + failed_requests does not
\* exceed total_requests.
C11_OutcomesWithinRequests ==
    \A name \in BreakerNames :
        StatsOf(name).successful_requests + StatsOf(name).failed_requests
            <= StatsOf(name).total_requests

\* C11 witness: a breaker that has recorded a success and a failure and was
\* just reset, with one call through it cancelled and another in flight
C11_Witness ==
    \E name \in BreakerNames : \E c, d \in Callers :
        /\ ops[c] = [pc |-> "cancelled", name |-> name]
        /\ ops[d] = [pc |-> "running", name |-> name]
        /\ last = Last("reset", name, "200")
        /\ StatsOf(name).successful_requests >= 1
        /\ StatsOf(name).failed_requests >= 1
        /\ StatsOf(name).successful_requests + StatsOf(name).failed_requests
              < StatsOf(name).total_requests

\* the step takes the count of breaker `name` from a positive value to 0
Zeroed(name) ==
    \/ Count(name) > 0 /\ Count(name)' = 0
    \/ /\ StatsOf(name).current_failure_count > 0
       /\ StatsOf(name)'.current_failure_count = 0

\* C12 as written: the count goes from a positive value to 0 only in the step
\* in which a call through the breaker returns successfully.
C12_OnlySuccessZeroes ==
    [][\A name \in BreakerNames :
          Zeroed(name) => last' = Last("returned", name, "none")]_vars

\* C12 amended: the count goes from a positive value to 0 only in the step in
\* which a call through the breaker returns successfully or in a reset() of
\* the breaker; a step that takes the breaker to Open or to HalfOpen does not
\* lower the count.
C12_OnlySuccessOrResetZeroes ==
    [][\A name \in BreakerNames :
          /\ Zeroed(name) =>
                \/ last' = Last("returned", name, "none")
                \/ last' = Last("reset", name, "200")
          /\ (Registered(name)'.state # Registered(name).state
                 /\ Registered(name)'.state # CLOSED) =>
                /\ Count(name)' >= Count(name)
                /\ StatsOf(name)'.current_failure_count
                      >= StatsOf(name).current_failure_count
      ]_vars

\* C12 witness: a breaker that had opened was reset, and its count is 0
C12_Witness ==
    \E name \in BreakerNames :
        /\ last = Last("reset", name, "200")
        /\ Count(name) = 0
        /\ StatsOf(name).circuit_opens >= 1
        /\ StatsOf(name).successful_requests = 0

\* C13: what a get_stats() call returned reads, at any later time, as it did
\* when get_stats() returned.
C13_StatsAreSnapshot ==
    held.object # "none" => Seen(held) = held.at_return

\* what reset() does to a breaker: b before, b2 after
ResetEffect(b, b2) ==
    /\ b2.state = CLOSED
    /\ b2._failure_count = 0
    /\ b2.stats.current_failure_count = 0
    /\ b2.stats.total_requests = b.stats.total_requests
    /\ b2.stats.successful_requests = b.stats.successful_requests
    /\ b2.stats.failed_requests = b.stats.failed_requests
    /\ b2.stats.circuit_opens = b.stats.circuit_opens
    /\ b2.stats.last_failure_time = b.stats.last_failure_time
    /\ b2.stats.last_success_time = b.stats.last_success_time
    /\ b2._last_failure_time = b._last_failure_time
    /\ b2.config = b.config

\* C14: a reset by name leaves the named breaker Closed with a zero count and
\* its other statistics and times as they were, leaves the other breaker as
\* it was, and answers 200; a reset with an unknown name answers 400 and
\* leaves both breakers as they were.
C14_ResetFrame ==
    [][last'.op = "reset" =>
          /\ \A name \in BreakerNames :
                IF name = last'.name
                THEN ResetEffect(Registered(name), Registered(name)')
                ELSE Registered(name)' = Registered(name)
          /\ last'.status = IF last'.name \in BreakerNames THEN "200" ELSE "400"
          /\ ops' = ops
      ]_vars

\* C14 witness: the database breaker, which had opened, was just reset, and
\* the other breaker has failures of its own on record
C14_Witness ==
    /\ last = Last("reset", "database", "200")
    /\ database_cb.state = CLOSED
    /\ database_cb.stats.circuit_opens >= 1
    /\ database_cb.stats.failed_requests >= 3
    /\ database_cb._last_failure_time # None
    /\ mlb_cb.stats.failed_requests >= 1
    /\ mlb_cb._failure_count >= 1

C16_TokensInRange ==
    /\ limiter.tokens >= 0
    /\ limiter.tokens <= limiter.max_requests * Unit

\* C16 witness: after a pause longer than time_window the bucket was refilled
\* (to its cap, not beyond) and an acquire() took one token from it, while a
\* caller of wait_for_token() is polling
C16_Witness ==
    /\ Len(grants) >= 2
    /\ grants[Len(grants)] - grants[Len(grants) - 1] > limiter.time_window
    /\ limiter.last_refill = grants[Len(grants)]
    /\ limiter.tokens = (limiter.max_requests - 1) * Unit
    /\ \E c \in Callers : lim_pc[c] = "polling"

\* C17: while no time has elapsed since the bucket was full, acquire()
\* returns True exactly as long as fewer than max_requests calls have been
\* granted; and the number of grants in any interval of length t is at most
\* max_requests + t * max_requests / time_window.
C17_BurstAndRate ==
    /\ now = 0 =>
          (acquire(limiter, now).ok <=> Len(grants) < limiter.max_requests)
    /\ \A i, j \in 1..Len(grants) :
          i <= j =>
             (j - i + 1) * limiter.time_window
                <= limiter.max_requests * limiter.time_window
                     + (grants[j] - grants[i]) * limiter.max_requests

\* C17 witness: an interval that starts with a burst of max_requests grants
\* and reaches the bound after some time
C17_Witness ==
    \E i, j \in 1..Len(grants) :
        /\ i < j
        /\ grants[j] > grants[i]
        /\ limiter.max_requests >= 2
        /\ i + limiter.max_requests - 1 <= Len(grants)
        /\ grants[i + limiter.max_requests - 1] = grants[i]
        /\ (j - i + 1) * limiter.time_window
              = limiter.max_requests * limiter.time_window
                  + (grants[j] - grants[i]) * limiter.max_requests

C19_WaitReturnsWithToken ==
    /\ [][/\ (lim_pc[Waiter] # "returned" /\ lim_pc'[Waiter] = "returned") =>
               /\ grants' = Append(grants, now)
               /\ limiter'.tokens <= (limiter.max_requests - 1) * Unit
          /\ (lim_pc[Waiter] = "polling" /\ grants' = grants) =>
               lim_pc'[Waiter] = "polling"
          /\ lim_pc'[Waiter] = "polling" => grants' = grants
       ]_vars
    /\ (lim_pc[Waiter] = "polling"
           /\ now + limiter.time_window < LimiterMaxTime)
         ~> (lim_pc[Waiter] = "returned")

\* C19 witness: the waiter was refused at first, polled through a whole
\* window and returned with the token of that window
C19_Witness ==
    /\ lim_pc[Waiter] = "returned"
    /\ Len(grants) = limiter.max_requests + 1
    /\ grants[Len(grants)] = now
    /\ grants[Len(grants) - 1] = 0
    /\ now >= limiter.time_window
    /\ twin.set

\* C20: a request enters the client's breaker only in a step in which its
\* acquire() was granted, and the breaker then changes as
\* CircuitBreaker.call changes it on entry, whether the request had waited or
\* not; a step that leaves the request waiting for a token changes no field
\* of the breaker; and a waiting request has not entered the breaker nor had
\* a success or a failure recorded for it.
C20_ThrottleBeforeBreaker ==
    /\ [][\A c \in Callers :
             /\ (reqs'[c] # reqs[c] /\ reqs'[c].pc = "rate_wait") =>
                   client_cb' = client_cb
             /\ ((ClientGet(c) \/ PollWake(c)) /\ reqs'[c].cb_calls = 1) =>
                   /\ acquire(limiter, now).ok
                   /\ limiter' = acquire(limiter, now).limiter
                   /\ client_cb' = call_enter(client_cb, now).breaker
          ]_vars
    /\ [](\A c \in Callers :
             reqs[c].pc = "rate_wait" =>
                /\ reqs[c].throttled
                /\ reqs[c].cb_calls = 0
                /\ reqs[c].cb_succ = 0
                /\ reqs[c].cb_fail = 0)

\* C20 witness: a request that had to wait for a token is through the
\* breaker, which another request had left with a failure on record
C20_Witness ==
    \E c \in Callers :
        /\ reqs[c].throttled
        /\ reqs[c].cb_calls = 1
        /\ reqs[c].pc = "request"
        /\ client_cb.stats.failed_requests >= 1

\* C21: a logical request that a breaker rejected is over at once with
\* CircuitBreakerError: it was rejected once, it is not asleep in a backoff
\* and awaits no network request; a request of the client that was rejected
\* made no attempt.
C21_RejectionFailsFast ==
    \A c \in Callers :
        reqs[c].rejections > 0 =>
            /\ reqs[c].rejections = 1
            /\ reqs[c].pc = "done"
            /\ reqs[c].result = CircuitBreakerError
            /\ reqs[c].attempt_number = 0

\* C22: when an attempt of a request ends with an HTTP status error (what
\* raise_for_status raises for a 4xx response), the request is over in that
\* step with that error: it was the first attempt, no backoff is taken, and
\* the breaker's count of consecutive failures is up by one.
C22_StatusErrorNotRetried ==
    [][\A c \in Callers :
          (reqs[c].pc = "request" /\ reqs'[c] # reqs[c]
                /\ reqs'[c].last_error = HTTPStatusError) =>
             /\ reqs[c].attempt_number = 1
             /\ reqs'[c].pc = "done"
             /\ reqs'[c].result = HTTPStatusError
             /\ client_cb'._failure_count = client_cb._failure_count + 1
      ]_vars

\* the step in which c's request reaches the client's breaker
EntersBreaker(c) ==
    /\ ClientGet(c) \/ PollWake(c)
    /\ reqs'[c].cb_calls = 1
\* the client's breaker is Open and recovery_timeout has not elapsed
ClientOpen ==
    /\ client_cb.state = OPEN
    /\ ~should_attempt_reset(client_cb, now)

\* C23: a request that reaches the client's breaker while it is Open (and
\* recovery_timeout has not elapsed) ends in that step with
\* CircuitBreakerError without an attempt; the client counts one rejection
\* and no failure; the breaker counts the request and keeps its state,
\* failed_requests, its count of consecutive failures and its last failure
\* time.  The client counts a rejection in no other step, and a request that
\* made an attempt never ends with CircuitBreakerError.
C23_RejectionIsDistinct ==
    /\ [][\A c \in Callers :
             (EntersBreaker(c) /\ ClientOpen) =>
                /\ reqs'[c].pc = "done"
                /\ reqs'[c].result = CircuitBreakerError
                /\ reqs'[c].attempt_number = 0
                /\ client_stats'.circuit_breaker_rejections
                     = client_stats.circuit_breaker_rejections + 1
                /\ client_stats'.failed_requests = client_stats.failed_requests
                /\ client_cb' = [client_cb EXCEPT !.stats.total_requests = @ + 1]
          ]_vars
    /\ [][client_stats'.circuit_breaker_rejections
             # client_stats.circuit_breaker_rejections =>
                (ClientOpen /\ \E c \in Callers : EntersBreaker(c))]_vars
    /\ [](\A c \in Callers :
             reqs[c].attempt_number >= 1 => reqs[c].result # CircuitBreakerError)

\* C23 witness: the client has had a request fail and has rejected another,
\* which left the breaker's failure fields as the failure had set them
C23_Witness ==
    /\ client_stats.circuit_breaker_rejections = 1
    /\ client_stats.failed_requests = 1
    /\ client_cb.state = OPEN
    /\ client_cb.stats.failed_requests = 1
    /\ client_cb.stats.total_requests = 2
    /\ \E c \in Callers :
          reqs[c].pc = "done" /\ reqs[c].result = CircuitBreakerError

\* C24: circuit_opens counts the trips: it starts at 0 and every step adds 1
\* to it if the step takes the breaker from Closed or HalfOpen to Open, and
\* nothing otherwise.
C24_OpensCountTrips ==
    [][cb'.stats.circuit_opens =
          cb.stats.circuit_opens
             + (IF cb.state # OPEN /\ cb'.state = OPEN THEN 1 ELSE 0)]_vars

\* the calls that are suspended in the operation
InFlight == Cardinality({c \in Callers : Running(c)})

\* C25: whatever the interleaving of the callers, the breaker's counters are
\* the numbers of the calls: total_requests of those that arrived,
\* successful_requests of those that returned, failed_requests of those that
\* ended with a tracked exception; and once no call is in flight, the calls
\* that returned, failed, were rejected or ended with an untracked exception
\* add up to total_requests.
C25_NoLostUpdate ==
    /\ cb.stats.total_requests = tally.arrived
    /\ cb.stats.successful_requests = tally.returned
    /\ cb.stats.failed_requests = tally.failed
    /\ cb.stats.total_requests
          = cb.stats.successful_requests + cb.stats.failed_requests
              + tally.rejected + tally.untracked + InFlight

\* C25 witness: four calls of the two callers are over, one of each kind
C25_Witness ==
    /\ InFlight = 0
    /\ tally = [arrived |-> 4, returned |-> 1, failed |-> 1, rejected |-> 1,
                untracked |-> 1, cancelled |-> 0]
    /\ calls[1].pc = "raised_unexpected"
    /\ calls[2].pc = "raised_breaker_error"

\* a tracked exception of breaker b
TrackedError(b) ==
    CHOOSE e \in OperationErrors : IsInstance(e, b.config.expected_exception)
\* the earliest time from t on at which breaker b lets a call through
NextLetThrough(b, t) ==
    IF b.state = OPEN /\ b._last_failure_time # None
    THEN Max(t, b._last_failure_time + b.config.recovery_timeout)
    ELSE t
\* breaker b after one ordinary call that arrives at time t and ends at once
\* with `outcome`
OrdinaryCall(b, outcome, t) ==
    LET r == call_enter(b, t)
    IN  IF r.rejected THEN r.breaker ELSE call_exit(r.breaker, outcome, t)
\* breaker b after n ordinary calls at time t that fail with a tracked exception
RECURSIVE FailedCalls(_, _, _)
FailedCalls(b, n, t) ==
    IF n = 0 THEN b
    ELSE FailedCalls(OrdinaryCall(b, TrackedError(b), t), n - 1, t)
\* breaker b after a call that succeeds as soon as b lets one through
AfterSuccess(b) == OrdinaryCall(b, "ok", NextLetThrough(b, now))
\* the same followed by failure_threshold failed calls
AfterFailures(b) ==
    FailedCalls(AfterSuccess(b), b.config.failure_threshold,
                NextLetThrough(b, now))

\* C26: cancelling a caller asleep in wait_for_token leaves the limiter as it
\* was, and the turns of the loop that left the caller waiting took no token;
\* tokens stays within [0, max_requests].  Cancelling a caller suspended in
\* the operation leaves every field of the breaker as it was, the request
\* counted at its arrival included; and in every state with a cancelled call,
\* a successful ordinary call closes the breaker and failure_threshold failed
\* ones after it open it again.
C26_CancelLeavesStateSound ==
    /\ [][\A c \in Callers :
             /\ (lim_pc[c] = "polling" /\ lim_pc'[c] = "cancelled") =>
                   limiter' = limiter /\ grants' = grants
             /\ ((WaitForToken(c) \/ Poll(c)) /\ lim_pc'[c] = "polling") =>
                   /\ grants' = grants
                   /\ limiter'.tokens >= limiter.tokens
             /\ (Running(c) /\ calls'[c].pc = "cancelled") => cb' = cb
          ]_vars
    /\ [](/\ limiter.tokens >= 0
          /\ limiter.tokens <= limiter.max_requests * Unit
          /\ cb.stats.total_requests = tally.arrived
          /\ (tally.cancelled > 0) =>
                /\ AfterSuccess(cb).state = CLOSED
                /\ AfterSuccess(cb)._failure_count = 0
                /\ AfterFailures(cb).state = OPEN
                /\ AfterFailures(cb).stats.circuit_opens
                      = AfterSuccess(cb).stats.circuit_opens + 1)

\* C26 witness: the half-open probe was cancelled
C26_Witness ==
    /\ cb.state = HALF_OPEN
    /\ \E c \in Callers : calls[c].pc = "cancelled" /\ calls[c].probe
    /\ InFlight = 0

\* a caller was cancelled in wait_for_token after it had polled through a
\* refill that another caller took
C26_WaitWitness ==
    /\ \E c \in Callers : lim_pc[c] = "cancelled"
    /\ \E c \in Callers : lim_pc[c] = "returned"
    /\ Len(grants) = limiter.max_requests + 1
    /\ limiter.last_refill > 0

\* the delay before attempt n (n >= 2) as section 5 gives it
SpecifiedDelay(n) == Min(WaitMax, Max(WaitMin, WaitMultiplier * 2 ^ (n - 2)))

\* C27: a request makes at most three attempts; when an attempt fails and
\* another is to follow, the request sleeps until SpecifiedDelay(n) seconds
\* later, n being the number of the attempt to come, a delay within
\* [WaitMin, WaitMax] and no shorter than the one before attempt n - 1; and
\* attempt n starts only when that time has come.
C27_AttemptsAndDelays ==
    /\ [](\A c \in Callers : reqs[c].attempt_number <= StopAfterAttempt)
    /\ [][\A c \in Callers :
             /\ (reqs[c].pc = "request" /\ reqs'[c].pc = "backoff") =>
                   LET n == reqs[c].attempt_number + 1
                       delay == reqs'[c].wake_at - now
                   IN  /\ n \in 2..StopAfterAttempt
                       /\ delay = SpecifiedDelay(n)
                       /\ delay >= WaitMin /\ delay <= WaitMax
                       /\ n > 2 => delay >= SpecifiedDelay(n - 1)
             /\ (reqs[c].pc = "backoff" /\ reqs'[c].pc = "request") =>
                   /\ now >= reqs[c].wake_at
                   /\ reqs'[c].attempt_number = reqs[c].attempt_number + 1
          ]_vars

\* C27 witness: the third attempt of a request is under way, two delays
\* after the first
C27_Witness ==
    \E c \in Callers :
        /\ reqs[c].pc = "request"
        /\ reqs[c].attempt_number = StopAfterAttempt
        /\ now = SpecifiedDelay(2) + SpecifiedDelay(3)

\* C28: a Closed breaker's count of consecutive failures is below
\* failure_threshold; the breaker enters Closed only with a count of zero,
\* and the step that takes the count of a Closed breaker to the threshold
\* leaves it Open.
C28_ClosedBelowThreshold ==
    /\ [](cb.state = CLOSED =>
            /\ cb._failure_count < Threshold
            /\ cb.stats.current_failure_count < Threshold)
    /\ [][/\ (cb.state # CLOSED /\ cb'.state = CLOSED) =>
               /\ cb'._failure_count = 0
               /\ cb'.stats.current_failure_count = 0
          /\ (cb.state = CLOSED /\ cb'._failure_count >= Threshold) =>
               cb'.state = OPEN
         ]_vars

\* C28 witness: a breaker that has been Open is Closed again, one failure
\* short of the threshold
C28_Witness ==
    /\ cb.state = CLOSED
    /\ Threshold >= 2
    /\ cb._failure_count = Threshold - 1
    /\ cb.stats.circuit_opens >= 1

\* the changes of state of section 4.2
Transitions ==
    { <<CLOSED, OPEN>>, <<OPEN, HALF_OPEN>>, <<HALF_OPEN, CLOSED>>,
      <<HALF_OPEN, OPEN>> }

\* C29: a step that changes the breaker's state is a reset() that leaves it
\* Closed, or takes it along one of Closed->Open, Open->HalfOpen,
\* HalfOpen->Closed, HalfOpen->Open: to HalfOpen when a call arrives, to Closed
\* when a call returns, to Open when a call ends with a tracked exception.
C29_TransitionsOnly ==
    [][cb'.state # cb.state =>
          \/ Reset /\ cb'.state = CLOSED
          \/ /\ <<cb.state, cb'.state>> \in Transitions
             /\ cb'.state = HALF_OPEN => Arrives
             /\ cb'.state = CLOSED => \E c \in Callers : Completes(c, "returned")
             /\ cb'.state = OPEN =>
                   \E c \in Callers : Completes(c, "raised_expected")
      ]_vars

\* C29 witness: the breaker has opened, let a probe through and closed on
\* the probe's success
C29_Witness ==
    /\ cb.state = CLOSED
    /\ cb.stats.circuit_opens = 1
    /\ cb.stats.last_success_time = now
    /\ \E c \in Callers : calls[c].probe /\ calls[c].pc = "returned"
    /\ \E c \in Callers : calls[c].pc = "raised_expected"

\* C30: a request that has reached the client's breaker has had exactly one
\* acquire() granted, and one that has not has had none; the step in which it
\* reaches the breaker is the one that takes the token (at most
\* max_requests - 1 are left after it); and the steps of its attempts and
\* backoffs leave the limiter alone.
C30_OneTokenPerRequest ==
    /\ [](\A c \in Callers :
             reqs[c].tokens_taken = (IF reqs[c].cb_calls >= 1 THEN 1 ELSE 0))
    /\ [][\A c \in Callers :
             /\ EntersBreaker(c) =>
                   /\ reqs[c].pc = "rate_wait" => reqs[c].tokens_taken = 0
                   /\ reqs'[c].tokens_taken = 1
                   /\ limiter'.tokens <= (limiter.max_requests - 1) * Unit
             /\ (reqs[c].pc \in {"request", "backoff"} /\ reqs'[c] # reqs[c]) =>
                   /\ limiter' = limiter
                   /\ reqs'[c].tokens_taken = 1
          ]_vars

\* C30 witness: a request that made three attempts and a request that was
\* throttled and then rejected by the breaker have each taken one token
C30_Witness ==
    \E c, d \in Callers :
        /\ reqs[c].attempt_number = StopAfterAttempt
        /\ reqs[c].pc = "done"
        /\ reqs[c].tokens_taken = 1
        /\ reqs[d].throttled
        /\ reqs[d].rejections = 1
        /\ reqs[d].tokens_taken = 1

====
